---- MODULE Spec2Model ----
(***************************************************************************)
(* Model of the `services vpc-peerings connect` command                    *)
(* (lib/surface/services/vpc_peerings/connect.py).                         *)
(*                                                                         *)
(* One invocation of the command is a sequential process whose position is *)
(* `pc`.  Every statement of Connect.Run that talks to a collaborator is   *)
(* one action; the collaborators (ambient configuration, project lookup,   *)
(* peering service, operation wait) answer nondeterministically.  The      *)
(* remote long-running operation is the variable `remote`, which the       *)
(* service drives to a terminal state on its own schedule.                 *)
(*                                                                         *)
(* Text is modelled structurally: the value of --reserved-ranges is a      *)
(* sequence of one-character strings, and messages are sequences of        *)
(* fragments in which "{0}" is the format placeholder.                     *)
(***************************************************************************)
EXTENDS Integers, Sequences, FiniteSets, TLC

VARIABLES
    argv,             \* the command line: which flags were given, and their values
    activeProject,    \* ambient configuration: core/project ("" when unset)
    pc,               \* position of the invocation
    err,              \* the exception that ended the invocation ("none" if none)
    args,             \* the parsed namespace handed to Run
    project,          \* local `project` of Run
    project_number,   \* local `project_number` of Run (0 before assignment)
    reserved_ranges,  \* local `reserved_ranges` of Run
    op,               \* local `op` of Run
    calls,            \* collaborators called so far, in order
    peerReq,          \* arguments of the PeerApiCall made (if any)
    waitArg,          \* argument of the WaitOperation made (if any)
    statusOut,        \* messages written to log.status
    stdOut,           \* operations handed to services_util.PrintOperation
    remote            \* the long-running operation on the service side

vars == << argv, activeProject, pc, err, args, project, project_number,
           reserved_ranges, op, calls, peerReq, waitArg, statusOut, stdOut,
           remote >>

(***************************************************************************)
(* Bounds and input domains                                                *)
(***************************************************************************)
MaxLen == 3

Alphabet == { "a", ",", " " }

RECURSIVE StringsUpTo(_)
StringsUpTo(n) ==
    IF n = 0 THEN { << >> }
    ELSE LET shorter == StringsUpTo(n - 1)
         IN  shorter \cup { Append(s, c) : s \in { t \in shorter : Len(t) = n - 1 },
                                            c \in Alphabet }

\* "10.197.0.0/20,10.198.0.0/20", the value used in the command's EXAMPLES
ExampleRanges ==
    << "1","0",".","1","9","7",".","0",".","0","/","2","0", ",",
       "1","0",".","1","9","8",".","0",".","0","/","2","0" >>
ExampleFirst  == << "1","0",".","1","9","7",".","0",".","0","/","2","0" >>
ExampleSecond == << "1","0",".","1","9","8",".","0",".","0","/","2","0" >>

\* "a,,b" and " a, a"
ExampleEmptyPiece == << "a", ",", ",", "b" >>
ExampleSpaces     == << " ", "a", ",", " ", "a" >>

RangeStrings ==
    StringsUpTo(MaxLen) \cup { ExampleRanges, ExampleEmptyPiece, ExampleSpaces }

Networks == { "my-network", "default" }
Services == { "your-service", "other-service" }
Flags    == { "network", "service", "reserved-ranges", "async" }

\* The projects the resource manager knows, with their numbers.
Directory == [ p \in { "proj-a", "proj-b" } |->
                 IF p = "proj-a" THEN 1001 ELSE 1002 ]
ProjectIds == { "", "proj-a", "proj-b", "no-such-project" }

OpNames == { "operations/op-1", "operations/op-2" }
Terminal == { "succeeded", "failed" }

NoOp   == [ name |-> "", from |-> "none", state |-> "none" ]
NoReq  == [ project_number |-> 0, service |-> "", network |-> "",
            reserved_ranges |-> << >> ]
NoArgs == [ network |-> "", service |-> "", reserved_ranges |-> << >>,
            async |-> FALSE ]

(***************************************************************************)
(* Text helpers                                                            *)
(***************************************************************************)
RECURSIVE SplitAcc(_, _, _, _)
SplitAcc(s, i, cur, acc) ==
    IF i > Len(s) THEN Append(acc, cur)
    ELSE IF s[i] = "," THEN SplitAcc(s, i + 1, << >>, Append(acc, cur))
    ELSE SplitAcc(s, i + 1, Append(cur, s[i]), acc)

RECURSIVE Strip(_)
Strip(s) ==
    IF s = << >> THEN s
    ELSE IF Head(s) = " " THEN Strip(Tail(s))
    ELSE IF s[Len(s)] = " " THEN Strip(SubSeq(s, 1, Len(s) - 1))
    ELSE s

\* a split that trims the blanks around every piece
SplitStripped(s) ==
    LET ps == SplitAcc(s, 1, << >>, << >>)
    IN  [ i \in DOMAIN ps |-> Strip(ps[i]) ]

\* a split that yields no piece at all for the empty string
SplitEmptyToNone(s) ==
    IF s = << >> THEN << >> ELSE SplitAcc(s, 1, << >>, << >>)

\* str.split(','): the pieces between the commas, left to right
Split(s) == SplitAcc(s, 1, << >>, << >>)

RECURSIVE Format(_, _)
\* template.format(arg): every "{0}" fragment is replaced by arg
Format(template, arg) ==
    IF template = << >> THEN << >>
    ELSE (IF Head(template) = "{0}" THEN arg ELSE << Head(template) >>)
         \o Format(Tail(template), arg)

OP_BASE_CMD == << "gcloud alpha services vpc-peerings operations " >>

\* a wait command that lost its placeholder
OP_WAIT_CMD_NoName == OP_BASE_CMD \o << "wait " >>

OP_WAIT_CMD == OP_BASE_CMD \o << "wait ", "{0}" >>

STATUS_MSG ==
    << "Asynchronous operation is in progress... Use the following command to wait for its completion:\n ",
       "{0}" >>

(***************************************************************************)
(* Initial state: a command line, an ambient configuration, nothing run.   *)
(***************************************************************************)
Init ==
    /\ \E g \in SUBSET Flags :
         \E n \in Networks, s \in Services, r \in RangeStrings :
            argv = [ given |-> g,
                     network |-> IF "network" \in g THEN n ELSE "",
                     service |-> IF "service" \in g THEN s ELSE "",
                     reserved_ranges |->
                         IF "reserved-ranges" \in g THEN r ELSE << >> ]
    /\ activeProject \in ProjectIds
    /\ pc = "parse"
    /\ err = "none"
    /\ args = NoArgs
    /\ project = ""
    /\ project_number = 0
    /\ reserved_ranges = << >>
    /\ op = NoOp
    /\ calls = << >>
    /\ peerReq = NoReq
    /\ waitArg = ""
    /\ statusOut = << >>
    /\ stdOut = << >>
    /\ remote = NoOp

Raise(e) == pc' = "error" /\ err' = e

(***************************************************************************)
(* Connect.Args: the flags and which of them are required                  *)
(***************************************************************************)
\* a parser on which --reserved-ranges is optional
RequiredFlagsLax == { "network", "service" }

RequiredFlags == { "network", "service", "reserved-ranges" }

ParseArgsOk ==
    /\ pc = "parse"
    /\ RequiredFlags \subseteq argv.given
    /\ args' = [ network |-> argv.network, service |-> argv.service,
                 reserved_ranges |-> argv.reserved_ranges,
                 async |-> ("async" \in argv.given) ]
    /\ pc' = "get_project"
    /\ UNCHANGED << argv, activeProject, err, project, project_number,
                    reserved_ranges, op, calls, peerReq, waitArg, statusOut,
                    stdOut, remote >>

ParseArgsFail ==
    /\ pc = "parse"
    /\ ~ (RequiredFlags \subseteq argv.given)
    /\ Raise("ArgumentError")
    /\ UNCHANGED << argv, activeProject, args, project, project_number,
                    reserved_ranges, op, calls, peerReq, waitArg, statusOut,
                    stdOut, remote >>

(***************************************************************************)
(* Connect.Run                                                             *)
(***************************************************************************)
\* project = properties.VALUES.core.project.Get(required=True)
GetProjectOk ==
    /\ pc = "get_project"
    /\ activeProject # ""
    /\ calls' = Append(calls, "properties.Get")
    /\ project' = activeProject
    /\ pc' = "lookup"
    /\ UNCHANGED << argv, activeProject, err, args, project_number,
                    reserved_ranges, op, peerReq, waitArg, statusOut, stdOut,
                    remote >>

\* a read with required=False: the unset property is returned as it is
GetProjectUnsetLax ==
    /\ pc = "get_project"
    /\ activeProject = ""
    /\ calls' = Append(calls, "properties.Get")
    /\ project' = activeProject
    /\ pc' = "lookup"
    /\ UNCHANGED << argv, activeProject, err, args, project_number,
                    reserved_ranges, op, peerReq, waitArg, statusOut, stdOut,
                    remote >>

GetProjectUnset ==
    /\ pc = "get_project"
    /\ activeProject = ""
    /\ calls' = Append(calls, "properties.Get")
    /\ Raise("RequiredPropertyError")
    /\ UNCHANGED << argv, activeProject, args, project, project_number,
                    reserved_ranges, op, peerReq, waitArg, statusOut, stdOut,
                    remote >>

\* project_number = _GetProjectNumber(project), the lookup answering
GetProjectNumberOk ==
    /\ pc = "lookup"
    /\ project \in DOMAIN Directory
    /\ calls' = Append(calls, "projects_api.Get")
    /\ project_number' = Directory[project]
    /\ pc' = "split"
    /\ UNCHANGED << argv, activeProject, err, args, project, reserved_ranges,
                    op, peerReq, waitArg, statusOut, stdOut, remote >>

\* a lookup failure that is swallowed: Run goes on with no project number
GetProjectNumberFailSwallowed ==
    /\ pc = "lookup"
    /\ calls' = Append(calls, "projects_api.Get")
    /\ pc' = "split"
    /\ UNCHANGED << argv, activeProject, err, args, project, project_number,
                    reserved_ranges, op, peerReq, waitArg, statusOut, stdOut,
                    remote >>

\* the lookup failing: unknown project, or a known one that is inaccessible
GetProjectNumberFail ==
    /\ pc = "lookup"
    /\ calls' = Append(calls, "projects_api.Get")
    /\ Raise("LookupError")
    /\ UNCHANGED << argv, activeProject, args, project, project_number,
                    reserved_ranges, op, peerReq, waitArg, statusOut, stdOut,
                    remote >>

\* reserved_ranges = args.reserved_ranges.split(',')
SplitRanges ==
    /\ pc = "split"
    /\ reserved_ranges' = Split(args.reserved_ranges)
    /\ pc' = "peer"
    /\ UNCHANGED << argv, activeProject, err, args, project, project_number,
                    op, calls, peerReq, waitArg, statusOut, stdOut, remote >>

\* a request built with service and network in each other's place
PeerRequestSwapped ==
    [ project_number |-> project_number, service |-> args.network,
      network |-> args.service, reserved_ranges |-> reserved_ranges ]

PeerRequest ==
    [ project_number |-> project_number, service |-> args.service,
      network |-> args.network, reserved_ranges |-> reserved_ranges ]

\* op = peering.PeerApiCall(...), the service accepting the request
PeerApiCallOk ==
    /\ pc = "peer"
    /\ calls' = Append(calls, "PeerApiCall")
    /\ peerReq' = PeerRequest
    /\ \E n \in OpNames :
         /\ remote' = [ name |-> n, from |-> "service", state |-> "running" ]
         /\ op' = [ name |-> n, from |-> "PeerApiCall", state |-> "running" ]
    /\ pc' = "branch"
    /\ UNCHANGED << argv, activeProject, err, args, project, project_number,
                    reserved_ranges, waitArg, statusOut, stdOut >>

\* a rejected request that is caught and issued once more
PeerApiCallRetry ==
    /\ pc = "peer"
    /\ Len(calls) < 4
    /\ calls' = Append(calls, "PeerApiCall")
    /\ peerReq' = PeerRequest
    /\ UNCHANGED << argv, activeProject, pc, err, args, project,
                    project_number, reserved_ranges, op, waitArg, statusOut,
                    stdOut, remote >>

\* the service rejecting the request
PeerApiCallFail ==
    /\ pc = "peer"
    /\ calls' = Append(calls, "PeerApiCall")
    /\ peerReq' = PeerRequest
    /\ Raise("PeerError")
    /\ UNCHANGED << argv, activeProject, args, project, project_number,
                    reserved_ranges, op, waitArg, statusOut, stdOut, remote >>

\* an async branch that falls through to the wait
AsyncReturnFallsThrough ==
    /\ pc = "branch"
    /\ args.async
    /\ calls' = Append(calls, "WaitOperation")
    /\ waitArg' = op.name
    /\ pc' = "waiting"
    /\ UNCHANGED << argv, activeProject, err, args, project, project_number,
                    reserved_ranges, op, peerReq, statusOut, stdOut, remote >>

\* if args.async: print the wait command and return
AsyncReturn ==
    /\ pc = "branch"
    /\ args.async
    /\ calls' = Append(calls, "log.status.Print")
    /\ statusOut' = Append(statusOut,
                           Format(STATUS_MSG, Format(OP_WAIT_CMD, << op.name >>)))
    /\ pc' = "done"
    /\ UNCHANGED << argv, activeProject, err, args, project, project_number,
                    reserved_ranges, op, peerReq, waitArg, stdOut, remote >>

\* a sync branch that prints the handle without waiting for the operation
WaitOperationSkipped ==
    /\ pc = "branch"
    /\ ~ args.async
    /\ pc' = "print"
    /\ UNCHANGED << argv, activeProject, err, args, project, project_number,
                    reserved_ranges, op, calls, peerReq, waitArg, statusOut,
                    stdOut, remote >>

\* op = peering.WaitOperation(op.name): the call is made and blocks
WaitOperationCall ==
    /\ pc = "branch"
    /\ ~ args.async
    /\ calls' = Append(calls, "WaitOperation")
    /\ waitArg' = op.name
    /\ pc' = "waiting"
    /\ UNCHANGED << argv, activeProject, err, args, project, project_number,
                    reserved_ranges, op, peerReq, statusOut, stdOut, remote >>

\* the wait answering with the terminal operation
WaitOperationReturn ==
    /\ pc = "waiting"
    /\ remote.state \in Terminal
    /\ op' = [ name |-> waitArg, from |-> "WaitOperation",
               state |-> remote.state ]
    /\ pc' = "print"
    /\ UNCHANGED << argv, activeProject, err, args, project, project_number,
                    reserved_ranges, calls, peerReq, waitArg, statusOut,
                    stdOut, remote >>

\* the wait reporting the failed operation as an exception
WaitOperationRaise ==
    /\ pc = "waiting"
    /\ remote.state = "failed"
    /\ Raise("OperationError")
    /\ UNCHANGED << argv, activeProject, args, project, project_number,
                    reserved_ranges, op, calls, peerReq, waitArg, statusOut,
                    stdOut, remote >>

\* services_util.PrintOperation(op)
PrintOperation ==
    /\ pc = "print"
    /\ calls' = Append(calls, "PrintOperation")
    /\ stdOut' = Append(stdOut, op)
    /\ pc' = "done"
    /\ UNCHANGED << argv, activeProject, err, args, project, project_number,
                    reserved_ranges, op, peerReq, waitArg, statusOut, remote >>

(***************************************************************************)
(* The service: the operation reaches a terminal state when it pleases,    *)
(* whether or not the command is still running.                            *)
(***************************************************************************)
OpProgress ==
    /\ remote.state = "running"
    /\ \E t \in Terminal : remote' = [ remote EXCEPT !.state = t ]
    /\ UNCHANGED << argv, activeProject, pc, err, args, project,
                    project_number, reserved_ranges, op, calls, peerReq,
                    waitArg, statusOut, stdOut >>

Run ==
    \/ GetProjectOk
    \/ GetProjectUnset
    \/ GetProjectNumberOk
    \/ GetProjectNumberFail
    \/ SplitRanges
    \/ PeerApiCallOk
    \/ PeerApiCallFail
    \/ AsyncReturn
    \/ WaitOperationCall
    \/ WaitOperationReturn
    \/ WaitOperationRaise
    \/ PrintOperation

Next ==
    \/ ParseArgsOk
    \/ ParseArgsFail
    \/ GetProjectOk
    \/ GetProjectUnset
    \/ GetProjectNumberOk
    \/ GetProjectNumberFail
    \/ SplitRanges
    \/ PeerApiCallOk
    \/ PeerApiCallFail
    \/ AsyncReturn
    \/ WaitOperationCall
    \/ WaitOperationReturn
    \/ WaitOperationRaise
    \/ PrintOperation
    \/ OpProgress

Spec == Init /\ [][Next]_vars

\* The process running the command keeps executing: a step of Run that is
\* possible is eventually taken.  Nothing is assumed about the service.
FairSpec == Spec /\ WF_vars(Run)

(***************************************************************************)
(* Vocabulary of the properties                                            *)
(***************************************************************************)
Called(f) == \E i \in DOMAIN calls : calls[i] = f

TimesCalled(f) == Cardinality({ i \in DOMAIN calls : calls[i] = f })

Commas(s) == Cardinality({ i \in DOMAIN s : s[i] = "," })

RECURSIVE Join(_)
\* the pieces written one after the other with a comma between neighbours
Join(ps) ==
    IF Len(ps) = 0 THEN << >>
    ELSE IF Len(ps) = 1 THEN ps[1]
    ELSE ps[1] \o << "," >> \o Join(Tail(ps))

IsPrefix(a, b) == Len(a) <= Len(b) /\ SubSeq(b, 1, Len(a)) = a

Contains(msg, part) ==
    \E i \in 1 .. (Len(msg) - Len(part) + 1) :
        SubSeq(msg, i, i + Len(part) - 1) = part

AsyncGiven == "async" \in argv.given
Returned == pc \in { "done", "error" }
HandleReturned == remote.state # "none"

SyncOrder  == << "properties.Get", "projects_api.Get", "PeerApiCall",
                 "WaitOperation", "PrintOperation" >>
AsyncOrder == << "properties.Get", "projects_api.Get", "PeerApiCall",
                 "log.status.Print" >>

(***************************************************************************)
(* Properties                                                              *)
(***************************************************************************)

\* C1: the range sequence handed to the peering request is exactly the
\* --reserved-ranges string cut at its commas: joining the pieces with commas
\* gives the string back, no piece holds a comma, there is one piece more
\* than there are commas (so nothing is trimmed, dropped or deduplicated),
\* and the documented example and the strings "a,,b" and " a, a" give the
\* expected pieces.
C1_RangesAreTheCommaPieces ==
    Called("PeerApiCall") =>
        LET given == argv.reserved_ranges
            sent  == peerReq.reserved_ranges
        IN  /\ Len(sent) = Commas(given) + 1
            /\ \A i \in DOMAIN sent : Commas(sent[i]) = 0
            /\ Join(sent) = given
            /\ given = ExampleRanges => sent = << ExampleFirst, ExampleSecond >>
            /\ given = ExampleEmptyPiece => sent = << << "a" >>, << >>, << "b" >> >>
            /\ given = ExampleSpaces => sent = << << " ", "a" >>, << " ", "a" >> >>

C1_Witness ==
    /\ Called("PeerApiCall")
    /\ argv.reserved_ranges = ExampleSpaces
    /\ peerReq.reserved_ranges = << << " ", "a" >>, << " ", "a" >> >>

\* C2: when --network, --service or --reserved-ranges is missing from the
\* command line the invocation ends in an argument error and no collaborator
\* is ever called.
C2_MissingFlagStopsBeforeAnyCall ==
    ~ ({ "network", "service", "reserved-ranges" } \subseteq argv.given) =>
        /\ calls = << >>
        /\ pc \in { "parse", "error" }
        /\ pc = "error" => err = "ArgumentError"

C2_Witness ==
    /\ argv.given = { "network", "service" }
    /\ pc = "error"
    /\ err = "ArgumentError"

\* C3: with --async the operation wait is never called and no operation is
\* printed; once the command has returned after the peering request, the one
\* status message holds the command "gcloud alpha services vpc-peerings
\* operations wait <name>" with the name of the operation the request created.
C3_AsyncReturnsWithoutPolling ==
    AsyncGiven =>
        /\ ~ Called("WaitOperation")
        /\ ~ Called("PrintOperation")
        /\ stdOut = << >>
        /\ (pc = "done") =>
              /\ HandleReturned
              /\ Len(statusOut) = 1
              /\ Contains(statusOut[1],
                          << "gcloud alpha services vpc-peerings operations ",
                             "wait ", remote.name >>)

C3_Witness ==
    /\ AsyncGiven
    /\ pc = "done"
    /\ Len(statusOut) = 1
    /\ remote.name = "operations/op-2"

\* C4: without --async the command, once its peering request was accepted,
\* has not returned while the operation is still running; what it prints is
\* the terminal operation; and once the operation is terminal the command
\* returns.
C4_SyncNotReturnedEarly ==
    (~ AsyncGiven /\ HandleReturned) =>
        /\ (Returned \/ stdOut # << >>) => remote.state \in Terminal
        /\ stdOut # << >> =>
              stdOut = << [ name |-> remote.name, from |-> "WaitOperation",
                            state |-> remote.state ] >>
        /\ pc = "done" => stdOut # << >>

C4_SyncBlocksUntilTerminal ==
    /\ [] C4_SyncNotReturnedEarly
    /\ (~ AsyncGiven /\ remote.state \in Terminal) ~> Returned

C4_Witness ==
    /\ ~ AsyncGiven
    /\ pc = "done"
    /\ remote.state = "failed"
    /\ Len(stdOut) = 1

\* C5: when the project lookup was called and gave no project number, the
\* invocation has ended with the lookup's error and no peering request was
\* made.
C5_LookupFailureStopsBeforePeering ==
    (Called("projects_api.Get") /\ project_number = 0) =>
        /\ pc = "error"
        /\ err = "LookupError"
        /\ ~ Called("PeerApiCall")
        /\ peerReq = NoReq

C5_Witness ==
    /\ activeProject = "no-such-project"
    /\ Called("projects_api.Get")
    /\ err = "LookupError"

\* C6: a --reserved-ranges string without a comma reaches the peering request
\* as a sequence of exactly one element, the string itself, the empty string
\* included.
C6_NoCommaGivesOnePiece ==
    (Called("PeerApiCall") /\ Commas(argv.reserved_ranges) = 0) =>
        peerReq.reserved_ranges = << argv.reserved_ranges >>

C6_Witness ==
    /\ Called("PeerApiCall")
    /\ argv.reserved_ranges = << >>
    /\ Len(peerReq.reserved_ranges) = 1

\* C7: with no active project configured, neither the project lookup nor the
\* peering request is ever called, and an invocation that got past argument
\* parsing and the read of the property has ended in the configuration error.
C7_NoProjectStopsBeforeLookup ==
    activeProject = "" =>
        /\ ~ Called("projects_api.Get")
        /\ ~ Called("PeerApiCall")
        /\ Called("properties.Get") =>
              (pc = "error" /\ err = "RequiredPropertyError")

C7_Witness ==
    /\ activeProject = ""
    /\ Called("properties.Get")
    /\ err = "RequiredPropertyError"

\* C8: the project lookup, the peering request and the operation wait are
\* each called at most once; a failure ends the invocation with that error;
\* and after a failure nothing more is called, written or changed by the
\* command.
C8_CalledAtMostOnce ==
    /\ TimesCalled("projects_api.Get") <= 1
    /\ TimesCalled("PeerApiCall") <= 1
    /\ TimesCalled("WaitOperation") <= 1
    /\ (err # "none") <=> (pc = "error")

C8_NoRetryNoRecovery ==
    /\ [] C8_CalledAtMostOnce
    /\ [][ pc = "error" =>
             /\ pc' = "error"
             /\ err' = err
             /\ calls' = calls
             /\ statusOut' = statusOut
             /\ stdOut' = stdOut ]_vars

C8_Witness ==
    /\ err = "OperationError"
    /\ TimesCalled("WaitOperation") = 1
    /\ remote.state = "failed"

\* C9: with --async, once the peering request has returned a handle the
\* invocation never ends in error, whatever state the operation reaches.
C9_AsyncNeverReportsOperationFailure ==
    (AsyncGiven /\ HandleReturned) =>
        /\ err = "none"
        /\ pc \in { "branch", "done" }

C9_Witness ==
    /\ AsyncGiven
    /\ pc = "done"
    /\ remote.state = "failed"
    /\ err = "none"

\* C10: the collaborators are called in the one fixed order; the peering
\* request carries the looked-up number of the active project and the
\* --service and --network values as given; the wait is issued with the name
\* of the operation that request created; and what is printed is the
\* operation the wait returned.
C10_FixedOrderAndArguments ==
    /\ IsPrefix(calls, IF AsyncGiven THEN AsyncOrder ELSE SyncOrder)
    /\ Called("PeerApiCall") =>
          /\ activeProject \in DOMAIN Directory
          /\ peerReq.project_number = Directory[activeProject]
          /\ peerReq.service = argv.service
          /\ peerReq.network = argv.network
    /\ Called("WaitOperation") => (HandleReturned /\ waitArg = remote.name)
    /\ stdOut # << >> =>
          /\ Len(stdOut) = 1
          /\ stdOut[1].from = "WaitOperation"
          /\ stdOut[1].name = remote.name

C10_Witness ==
    /\ calls = SyncOrder
    /\ activeProject = "proj-b"
    /\ peerReq.project_number = 1002
    /\ Len(stdOut) = 1

====
